---- MODULE Spec2Model ----
(***************************************************************************)
(* Model of two actions of the installer:                                  *)
(*   - ConfigureShellProfile (src/actions/meta/configure_shell_profile.rs) *)
(*     a composite that fans its CreateOrAppendFile children out over a    *)
(*     tokio JoinSet and joins them in completion order;                   *)
(*   - SetupDefaultProfile (src/actions/base/setup_default_profile.rs)     *)
(*     a leaf that installs two packages, sets NIX_SSL_CERT_FILE and       *)
(*     updates the channels.                                               *)
(* CreateOrAppendFile itself is not part of the modelled sources; its      *)
(* execute/revert follow the action contract of the specification.         *)
(***************************************************************************)
EXTENDS Integers, Sequences, FiniteSets, TLC

\* ---------------------------------------------------------------- bounds
\* largest number of leading PROFILE_TARGETS paths that exist on a modelled host
MaxExisting == 3

\* ------------------------------------------------------------- constants
PROFILE_TARGETS ==
    << "/etc/bashrc", "/etc/profile.d/nix.sh", "/etc/zshrc",
       "/etc/bash.bashrc", "/etc/zsh/zshrc" >>

NIX_SSL_CERT_FILE_VALUE == "/nix/var/nix/profiles/default/etc/ssl/certs/ca-bundle.crt"

\* ActionState
Uncompleted == "Uncompleted"
Progress    == "Progress"
Completed   == "Completed"

VARIABLES
    exists,                 \* host: the PROFILE_TARGETS paths that exist
    subject,                \* the action this run of the installer drives
    \* ---- ConfigureShellProfile
    create_or_append_files, \* Vec<CreateOrAppendFile>: sequence of [path, action_state]
    action_state,           \* the composite's ActionState
    pc,                     \* "idle", the operation whose future is being polled, or "returned"
    spawnIdx,               \* next index of the spawn loop
    tasks,                  \* per child index: the task spawned in the current call
    set,                    \* JoinSet: finished tasks not yet joined, in completion order
    joined,                 \* the tasks join_next() has returned in the current call, in order
    errors,                 \* Vec<CreateOrAppendFileError> of the current call
    result,                 \* what the last call returned
    call,                   \* the last call: operation and the state it started from
    prev,                   \* whether the call before it was an execute() that returned child errors
    \* ---- SetupDefaultProfile
    channels,               \* Vec<String>
    leaf_state,             \* the leaf's ActionState
    env,                    \* host: value of NIX_SSL_CERT_FILE in the process environment
    leafCall                \* the last call on the leaf: operation, start state, steps, result

cvars == << create_or_append_files, action_state, pc, spawnIdx, tasks, set, joined,
            errors, result, call, prev >>
lvars == << channels, leaf_state, env, leafCall >>
vars  == << exists, subject, create_or_append_files, action_state, pc, spawnIdx, tasks, set, joined,
            errors, result, call, prev, channels, leaf_state, env, leafCall >>

\* ------------------------------------------------------------ plan (Init)
Paths == { PROFILE_TARGETS[i] : i \in 1..Len(PROFILE_TARGETS) }

\* the host of the specification's end-to-end scenario: /etc/profile.d/nix.sh
\* is missing
ScenarioHost == { "/etc/bashrc", "/etc/zshrc" }

FirstTargets(k) ==
    { PROFILE_TARGETS[i] : i \in { j \in 1..Len(PROFILE_TARGETS) : j <= k } }

\* hosts, each the set of target paths that exist on it: the first k targets
\* for each k up to the bound, and the scenario host
Hosts == { FirstTargets(k) : k \in 0..MaxExisting } \cup { ScenarioHost }

RECURSIVE PlanFrom_StopAtMissing(_, _)
\* faulty variant: the loop of plan() ends at the first missing path
PlanFrom_StopAtMissing(i, host) ==
    IF i > Len(PROFILE_TARGETS) THEN << >>
    ELSE IF PROFILE_TARGETS[i] \notin host THEN << >>
    ELSE << [path |-> PROFILE_TARGETS[i], action_state |-> Uncompleted] >>
         \o PlanFrom_StopAtMissing(i + 1, host)

RECURSIVE PlanFrom(_, _)
\* the loop of plan(): targets in order, a missing path is skipped
PlanFrom(i, host) ==
    IF i > Len(PROFILE_TARGETS) THEN << >>
    ELSE IF PROFILE_TARGETS[i] \notin host THEN PlanFrom(i + 1, host)
    ELSE << [path |-> PROFILE_TARGETS[i], action_state |-> Uncompleted] >>
         \o PlanFrom(i + 1, host)

Plan(host) == PlanFrom(1, host)

NoResult == [kind |-> "None", errs |-> << >>, task |-> 0]
OkResult == [kind |-> "Ok", errs |-> << >>, task |-> 0]

NoCall == [op |-> "none", pre_state |-> Uncompleted, pre_files |-> << >>]

\* plan() has returned the composite
PlanCall == [op |-> "plan", pre_state |-> Uncompleted, pre_files |-> << >>]

\* `action_state: ActionState::Uncompleted` of the planned composite
PlannedState == Uncompleted

FreshTasks(files) ==
    [i \in 1..Len(files) |->
        [status |-> "unspawned", res |-> "none", clone |-> files[i], applied |-> 0]]

\* ------------------------------------------------- CreateOrAppendFile (child)
\* outcomes of one child operation run inside a spawned task
Outcomes == { "ok", "err", "panic" }

\* the error a child reports: it names the file the child is for
ChildError(child) == child.path

\* `applied` is the host mutation done: 1 the marker block was appended, -1 it
\* was removed, 0 the file was not touched.
\* child.execute(): Completed short-circuits; otherwise the block is appended
\* and the child becomes Completed on success, and is left as it was on failure
ChildExecute(child, outcome) ==
    IF child.action_state = Completed
    THEN [res |-> "ok", child |-> child, applied |-> 0]
    ELSE IF outcome = "ok"
         THEN [res |-> "ok", child |-> [child EXCEPT !.action_state = Completed],
               applied |-> 1]
         ELSE [res |-> "err", child |-> child, applied |-> 0]

\* child.revert(): Uncompleted short-circuits; otherwise the block is removed
\* and the child becomes Uncompleted on success
ChildRevert(child, outcome) ==
    IF child.action_state = Uncompleted
    THEN [res |-> "ok", child |-> child, applied |-> 0]
    ELSE IF outcome = "ok"
         THEN [res |-> "ok", child |-> [child EXCEPT !.action_state = Uncompleted],
               applied |-> -1]
         ELSE [res |-> "err", child |-> child, applied |-> 0]

ChildOp(op, child, outcome) ==
    IF op = "execute" THEN ChildExecute(child, outcome)
    ELSE ChildRevert(child, outcome)

\* ------------------------------------------------- ConfigureShellProfile
\* faulty variant: execute() has lost its guard
ExecuteShortCircuit_Never(st) == FALSE

\* `if *action_state == ActionState::Completed { return Ok(()) }`
ExecuteShortCircuit(st) == st = Completed

\* faulty variant: revert() returns at once unless the composite is Completed
RevertShortCircuit_NotCompleted(st) == st # Completed

\* `if *action_state == ActionState::Uncompleted { return Ok(()) }`
RevertShortCircuit(st) == st = Uncompleted

ShortCircuit(op, st) ==
    IF op = "execute" THEN ExecuteShortCircuit(st) ELSE RevertShortCircuit(st)

\* faulty variant: the state is not marked in-progress ahead of the fan-out
StartedState_Unchanged(st) == st

\* `*action_state = ActionState::Progress` ahead of the fan-out
StartedState(st) == Progress

\* faulty variant: execute() stores the final state of revert()
ExecuteFinalState_Uncompleted == Uncompleted

\* `*action_state = ActionState::Completed` / `ActionState::Uncompleted`
ExecuteFinalState == Completed
RevertFinalState == Uncompleted
FinalState(op) == IF op = "execute" THEN ExecuteFinalState ELSE RevertFinalState

\* faulty variant: every task is given the first child
CloneChild_First(files, idx) == files[1]

\* `create_or_append_file.clone()` moved into the spawned task
CloneChild(files, idx) == files[idx]

\* faulty variant: the joined child is dropped instead of being stored
WriteBack_Dropped(files, idx, child) == files

\* faulty variant: the joined child is stored at the position of its completion
WriteBack_AtJoinPosition(files, idx, child) ==
    [files EXCEPT ![Len(joined) + 1] = child]

\* `create_or_append_files[idx] = create_or_append_file`
WriteBack(files, idx, child) == [files EXCEPT ![idx] = child]

\* faulty variant: the error is put in front of the collected ones
PushError_Front(errs, e) == << e >> \o errs

\* `errors.push(e)`
PushError(errs, e) == Append(errs, e)

\* faulty variant: the first child error ends the call
AfterChildError_Return(op) == "returned"

\* `Ok(Err(e)) => errors.push(e)`: the loop goes on to the next join_next()
AfterChildError(op) == op

\* faulty variant: the join error is merged into the collected child errors
JoinErrorResult_Merged(idx) ==
    [kind |-> "MultipleCreateOrAppendFile",
     errs |-> Append(errors, ChildError(tasks[idx].clone)), task |-> 0]

\* `Err(e) => return Err(e.into())`: From<JoinError>
JoinErrorResult(idx) == [kind |-> "Join", errs |-> << >>, task |-> idx]

\* faulty variant: only the first error is returned, whatever their number
ErrorsResult_FirstOnly(errs) ==
    [kind |-> "CreateOrAppendFile", errs |-> << errs[1] >>, task |-> 0]

\* `if !errors.is_empty() { if errors.len() == 1 {..} else {..} }`
ErrorsResult(errs) ==
    IF Len(errs) = 1
    THEN [kind |-> "CreateOrAppendFile", errs |-> << errs[1] >>, task |-> 0]
    ELSE [kind |-> "MultipleCreateOrAppendFile", errs |-> errs, task |-> 0]

\* dropping the JoinSet on return aborts the tasks still running
DropSet(ts) ==
    [i \in DOMAIN ts |->
        IF ts[i].status = "running" THEN [ts[i] EXCEPT !.status = "aborted"]
        ELSE ts[i]]

\* what the next call remembers of the call that has just returned
PrevOf(c, r) ==
    IF c.op = "execute" /\ r.kind \in { "CreateOrAppendFile", "MultipleCreateOrAppendFile" }
    THEN "execute returned child errors"
    ELSE "other"

\* execute()/revert(), entry to the end of the guard
Begin(op) ==
    /\ subject = "ConfigureShellProfile"
    /\ pc = "idle"
    /\ call' = [op |-> op, pre_state |-> action_state,
                pre_files |-> create_or_append_files]
    /\ tasks' = FreshTasks(create_or_append_files)
    /\ set' = << >>
    /\ joined' = << >>
    /\ errors' = << >>
    /\ spawnIdx' = 1
    /\ IF ShortCircuit(op, action_state)
       THEN /\ result' = OkResult
            /\ pc' = "returned"
            /\ UNCHANGED action_state
       ELSE /\ action_state' = StartedState(action_state)
            /\ result' = NoResult
            /\ pc' = op
    /\ UNCHANGED << create_or_append_files, prev >>
    /\ UNCHANGED << exists, subject, channels, leaf_state, env, leafCall >>

Execute == Begin("execute")
Revert == Begin("revert")

\* one iteration of the spawn loop
Spawn ==
    /\ pc \in { "execute", "revert" }
    /\ spawnIdx <= Len(create_or_append_files)
    /\ tasks[spawnIdx].status = "unspawned"
    /\ tasks' = [tasks EXCEPT ![spawnIdx] =
                    [status |-> "running", res |-> "none",
                     clone |-> CloneChild(create_or_append_files, spawnIdx),
                     applied |-> 0]]
    /\ spawnIdx' = spawnIdx + 1
    /\ UNCHANGED << create_or_append_files, action_state, pc, set, joined, errors,
                    result, call, prev >>
    /\ UNCHANGED << exists, subject, channels, leaf_state, env, leafCall >>

\* a spawned task runs its child operation on its clone and finishes
TaskRun(i, outcome) ==
    /\ pc \in { "execute", "revert" }
    /\ i \in DOMAIN tasks
    /\ tasks[i].status = "running"
    /\ LET r == ChildOp(pc, tasks[i].clone, outcome)
       IN  IF outcome = "panic"
           THEN tasks' = [tasks EXCEPT ![i].status = "finished", ![i].res = "panic"]
           ELSE tasks' = [tasks EXCEPT ![i] =
                             [status |-> "finished", res |-> r.res,
                              clone |-> r.child, applied |-> r.applied]]
    /\ set' = Append(set, i)
    /\ UNCHANGED << create_or_append_files, action_state, pc, spawnIdx, joined,
                    errors, result, call, prev >>
    /\ UNCHANGED << exists, subject, channels, leaf_state, env, leafCall >>

\* one iteration of `while let Some(result) = set.join_next().await`
JoinNext ==
    /\ pc \in { "execute", "revert" }
    /\ spawnIdx > Len(create_or_append_files)
    /\ set # << >>
    /\ LET i == Head(set)
       IN  /\ set' = Tail(set)
           /\ joined' = Append(joined, i)
           /\ IF tasks[i].res = "ok"
              THEN /\ create_or_append_files' =
                          WriteBack(create_or_append_files, i, tasks[i].clone)
                   /\ tasks' = [tasks EXCEPT ![i].status = "joined"]
                   /\ UNCHANGED << errors, result, pc >>
              ELSE IF tasks[i].res = "err"
              THEN /\ errors' = PushError(errors, ChildError(tasks[i].clone))
                   /\ tasks' = [tasks EXCEPT ![i].status = "joined"]
                   /\ pc' = AfterChildError(pc)
                   /\ UNCHANGED << create_or_append_files, result >>
              ELSE /\ result' = JoinErrorResult(i)
                   /\ pc' = "returned"
                   /\ tasks' = DropSet([tasks EXCEPT ![i].status = "joined"])
                   /\ UNCHANGED << create_or_append_files, errors >>
    /\ UNCHANGED << action_state, spawnIdx, call, prev >>
    /\ UNCHANGED << exists, subject, channels, leaf_state, env, leafCall >>

\* join_next() returned None: the tail of execute()/revert()
Finish ==
    /\ pc \in { "execute", "revert" }
    /\ spawnIdx > Len(create_or_append_files)
    /\ set = << >>
    /\ \A i \in DOMAIN tasks : tasks[i].status = "joined"
    /\ IF errors # << >>
       THEN /\ result' = ErrorsResult(errors)
            /\ UNCHANGED action_state
       ELSE /\ action_state' = FinalState(pc)
            /\ result' = OkResult
    /\ pc' = "returned"
    /\ UNCHANGED << create_or_append_files, spawnIdx, tasks, set, joined, errors,
                    call, prev >>
    /\ UNCHANGED << exists, subject, channels, leaf_state, env, leafCall >>

\* the caller takes the returned value; the locals of the call are gone
Continue ==
    /\ pc = "returned"
    /\ pc' = "idle"
    /\ prev' = PrevOf(call, result)
    /\ call' = NoCall
    /\ result' = NoResult
    /\ tasks' = << >>
    /\ set' = << >>
    /\ joined' = << >>
    /\ errors' = << >>
    /\ spawnIdx' = 1
    /\ UNCHANGED << create_or_append_files, action_state >>
    /\ UNCHANGED << exists, subject, channels, leaf_state, env, leafCall >>

\* faulty variant: describe_execute() tests the state describe_revert() tests
DescribeExecute_WrongState(st) ==
    IF st = Uncompleted THEN << >>
    ELSE << [title |-> "Configure the shell profiles",
             explanation |-> << "Update shell profiles to import Nix" >>] >>

\* ConfigureShellProfile::describe_execute
DescribeExecute(st) ==
    IF st = Completed THEN << >>
    ELSE << [title |-> "Configure the shell profiles",
             explanation |-> << "Update shell profiles to import Nix" >>] >>

\* ConfigureShellProfile::describe_revert
DescribeRevert(st) ==
    IF st = Uncompleted THEN << >>
    ELSE << [title |-> "Unconfigure the shell profiles",
             explanation |-> << "Update shell profiles to no longer import Nix" >>] >>

\* ------------------------------------------------- SetupDefaultProfile
\* SetupDefaultProfile::describe_execute
LeafDescribeExecute(st) ==
    IF st = Completed THEN << >>
    ELSE << [title |-> "Setup the default Nix profile", explanation |-> << "TODO" >>] >>

\* SetupDefaultProfile::describe_revert
LeafDescribeRevert(st) ==
    IF st = Uncompleted THEN << >>
    ELSE << [title |-> "Unset the default Nix profile", explanation |-> << "TODO" >>] >>

\* `if *action_state == ActionState::Completed { return Ok(()) }`
LeafExecuteShortCircuit(st) == st = Completed

\* faulty variant: the guard of the leaf's revert() tests the wrong state
LeafRevertShortCircuit_WrongState(st) == st = Completed

\* `if *action_state == ActionState::Uncompleted { return Ok(()) }`
LeafRevertShortCircuit(st) == st = Uncompleted

\* the state revert() stores on success
LeafRevertFinalState == Completed

\* the state execute() stores on success
LeafExecuteFinalState == Completed

\* which external command of execute() fails: 0 none, 1 `nix-env -i <nix>`,
\* 2 `nix-env -i <nss-cacert>`, 3 `nix-channel --update`
CommandFailures == 0..3

LeafOk == [kind |-> "Ok"]
LeafNoNssCacert == [kind |-> "NoNssCacert"]
LeafCommandError(step) == [kind |-> "Command", step |-> step]

\* faulty variant: the state is stored before the channel update has run
LeafExecuteBody_EarlyState(chs, st, e, nixFound, nssFound, fail) ==
    IF ~nixFound
    THEN [steps |-> << >>, result |-> LeafNoNssCacert, env |-> e, state |-> st]
    ELSE IF fail = 1
    THEN [steps |-> << "nix-env -i nix" >>,
          result |-> LeafCommandError("nix-env -i nix"), env |-> e, state |-> st]
    ELSE IF ~nssFound
    THEN [steps |-> << "nix-env -i nix" >>, result |-> LeafNoNssCacert,
          env |-> e, state |-> st]
    ELSE IF fail = 2
    THEN [steps |-> << "nix-env -i nix", "nix-env -i nss-cacert" >>,
          result |-> LeafCommandError("nix-env -i nss-cacert"), env |-> e, state |-> st]
    ELSE IF chs = << >>
    THEN [steps |-> << "nix-env -i nix", "nix-env -i nss-cacert", "set_env" >>,
          result |-> LeafOk, env |-> NIX_SSL_CERT_FILE_VALUE,
          state |-> Completed]
    ELSE IF fail = 3
    THEN [steps |-> << "nix-env -i nix", "nix-env -i nss-cacert", "set_env",
                       "nix-channel --update" >>,
          result |-> LeafCommandError("nix-channel --update"),
          env |-> NIX_SSL_CERT_FILE_VALUE, state |-> Completed]
    ELSE [steps |-> << "nix-env -i nix", "nix-env -i nss-cacert", "set_env",
                       "nix-channel --update" >>,
          result |-> LeafOk, env |-> NIX_SSL_CERT_FILE_VALUE,
          state |-> Completed]

\* body of execute() past the guard: the steps performed, in order, the value
\* returned, the environment variable and the state afterwards
LeafExecuteBody(chs, st, e, nixFound, nssFound, fail) ==
    IF ~nixFound
    THEN [steps |-> << >>, result |-> LeafNoNssCacert, env |-> e, state |-> st]
    ELSE IF fail = 1
    THEN [steps |-> << "nix-env -i nix" >>,
          result |-> LeafCommandError("nix-env -i nix"), env |-> e, state |-> st]
    ELSE IF ~nssFound
    THEN [steps |-> << "nix-env -i nix" >>, result |-> LeafNoNssCacert,
          env |-> e, state |-> st]
    ELSE IF fail = 2
    THEN [steps |-> << "nix-env -i nix", "nix-env -i nss-cacert" >>,
          result |-> LeafCommandError("nix-env -i nss-cacert"), env |-> e, state |-> st]
    ELSE IF chs = << >>
    THEN [steps |-> << "nix-env -i nix", "nix-env -i nss-cacert", "set_env" >>,
          result |-> LeafOk, env |-> NIX_SSL_CERT_FILE_VALUE,
          state |-> LeafExecuteFinalState]
    ELSE IF fail = 3
    THEN [steps |-> << "nix-env -i nix", "nix-env -i nss-cacert", "set_env",
                       "nix-channel --update" >>,
          result |-> LeafCommandError("nix-channel --update"),
          env |-> NIX_SSL_CERT_FILE_VALUE, state |-> st]
    ELSE [steps |-> << "nix-env -i nix", "nix-env -i nss-cacert", "set_env",
                       "nix-channel --update" >>,
          result |-> LeafOk, env |-> NIX_SSL_CERT_FILE_VALUE,
          state |-> LeafExecuteFinalState]

\* SetupDefaultProfile::execute
LeafExecute(nixFound, nssFound, fail) ==
    /\ subject = "SetupDefaultProfile"
    /\ LET r == IF LeafExecuteShortCircuit(leaf_state)
                THEN [steps |-> << >>, result |-> LeafOk, env |-> env,
                      state |-> leaf_state]
                ELSE LeafExecuteBody(channels, leaf_state, env,
                                     nixFound, nssFound, fail)
       IN  /\ leafCall' = [op |-> "execute", pre_state |-> leaf_state,
                           pre_env |-> env, steps |-> r.steps, result |-> r.result]
           /\ env' = r.env
           /\ leaf_state' = r.state
    /\ UNCHANGED << exists, subject, channels >>
    /\ UNCHANGED cvars

\* faulty variant: revert() does nothing to the host
LeafRevertBody_Noop(e) ==
    [steps |-> << >>, result |-> LeafOk, env |-> e, state |-> LeafRevertFinalState]

\* body of revert() past the guard: `std::env::remove_var("NIX_SSL_CERT_FILE")`
LeafRevertBody(e) ==
    [steps |-> << "remove_var" >>, result |-> LeafOk, env |-> "unset",
     state |-> LeafRevertFinalState]

\* SetupDefaultProfile::revert
LeafRevert ==
    /\ subject = "SetupDefaultProfile"
    /\ IF LeafRevertShortCircuit(leaf_state)
       THEN /\ leafCall' = [op |-> "revert", pre_state |-> leaf_state,
                            pre_env |-> env, steps |-> << >>, result |-> LeafOk]
            /\ UNCHANGED << env, leaf_state >>
       ELSE LET r == LeafRevertBody(env)
            IN  /\ leafCall' = [op |-> "revert", pre_state |-> leaf_state,
                                pre_env |-> env, steps |-> r.steps,
                                result |-> r.result]
                /\ env' = r.env
                /\ leaf_state' = r.state
    /\ UNCHANGED << exists, subject, channels >>
    /\ UNCHANGED cvars

\* ------------------------------------------------- specification
ChannelLists == { << >>, << "nixpkgs" >> }

\* A run drives one of the two actions; they share no state. The composite is
\* planned on every modelled host, the leaf with every channel list. The
\* initial state is the one in which plan() has returned.
Init ==
    /\ subject \in { "ConfigureShellProfile", "SetupDefaultProfile" }
    /\ exists \in Hosts
    /\ subject = "SetupDefaultProfile" => exists = { }
    /\ create_or_append_files = Plan(exists)
    /\ action_state = PlannedState
    /\ pc = "returned"
    /\ spawnIdx = 1
    /\ tasks = << >>
    /\ set = << >>
    /\ joined = << >>
    /\ errors = << >>
    /\ result = OkResult
    /\ call = PlanCall
    /\ prev = "other"
    /\ channels \in ChannelLists
    /\ subject = "ConfigureShellProfile" => channels = << >>
    /\ leaf_state = Uncompleted
    /\ env \in { "unset", "other" }
    /\ subject = "ConfigureShellProfile" => env = "unset"
    /\ leafCall = [op |-> "none", pre_state |-> Uncompleted, pre_env |-> env,
                   steps |-> << >>, result |-> LeafOk]

Next ==
    \/ Execute
    \/ Revert
    \/ Spawn
    \/ \E i \in 1..Len(create_or_append_files), o \in Outcomes : TaskRun(i, o)
    \/ JoinNext
    \/ Finish
    \/ Continue
    \/ \E nixFound \in BOOLEAN, nssFound \in BOOLEAN, fail \in CommandFailures :
          LeafExecute(nixFound, nssFound, fail)
    \/ LeafRevert

Spec == Init /\ [][Next]_vars

\* ------------------------------------------------- properties
\* a call on the composite has returned and its value has not been taken yet
Returned == pc = "returned"

\* the call ran the fan-out (it did not take the short-circuit)
FannedOut ==
    /\ Returned
    /\ call.op \in { "execute", "revert" }
    /\ ~ShortCircuit(call.op, call.pre_state)

NoTaskSpawned == \A i \in DOMAIN tasks : tasks[i].status = "unspawned"

\* children whose task reported an ordinary error, succeeded, panicked
FailedTasks == { i \in DOMAIN tasks : tasks[i].res = "err" }
OkTasks == { i \in DOMAIN tasks : tasks[i].res = "ok" }
PanickedTasks == { i \in DOMAIN tasks : tasks[i].res = "panic" }

SeqToSet(q) == { q[k] : k \in 1..Len(q) }

\* C1: execute() on a Completed action returns success and changes nothing:
\* the state stays Completed, no task is spawned, no child is modified; the
\* leaf invokes no command and leaves NIX_SSL_CERT_FILE alone.
C1_IdempotentExecute ==
    /\ (Returned /\ call.op = "execute" /\ call.pre_state = Completed) =>
          /\ result = OkResult
          /\ action_state = Completed
          /\ create_or_append_files = call.pre_files
          /\ NoTaskSpawned
          /\ errors = << >>
    /\ (leafCall.op = "execute" /\ leafCall.pre_state = Completed) =>
          /\ leafCall.result = LeafOk
          /\ leaf_state = Completed
          /\ leafCall.steps = << >>
          /\ env = leafCall.pre_env

\* witness of C1: a Completed composite with three children has been executed again
C1_Witness ==
    /\ Returned /\ call.op = "execute" /\ call.pre_state = Completed
    /\ Len(create_or_append_files) = 3
    /\ result = OkResult

\* C2: revert() on an Uncompleted action returns success and changes nothing:
\* the state stays Uncompleted, no task is spawned, no child is modified, and
\* NIX_SSL_CERT_FILE is not touched.
C2_IdempotentRevert ==
    /\ (Returned /\ call.op = "revert" /\ call.pre_state = Uncompleted) =>
          /\ result = OkResult
          /\ action_state = Uncompleted
          /\ create_or_append_files = call.pre_files
          /\ NoTaskSpawned
          /\ errors = << >>
    /\ (leafCall.op = "revert" /\ leafCall.pre_state = Uncompleted) =>
          /\ leafCall.result = LeafOk
          /\ leaf_state = Uncompleted
          /\ leafCall.steps = << >>
          /\ env = leafCall.pre_env

\* witness of C2: the Uncompleted leaf was reverted while NIX_SSL_CERT_FILE was
\* set (by an execute() whose channel update failed), and it is still set
C2_Witness ==
    /\ leafCall.op = "revert" /\ leafCall.pre_state = Uncompleted
    /\ leafCall.pre_env = NIX_SSL_CERT_FILE_VALUE
    /\ env = NIX_SSL_CERT_FILE_VALUE

\* C3: a revert() called in a state other than Uncompleted that returns
\* success leaves the action, leaf or composite, Uncompleted.
C3_RevertEndsUncompleted ==
    /\ (Returned /\ call.op = "revert" /\ call.pre_state # Uncompleted
          /\ result.kind = "Ok") => action_state = Uncompleted
    /\ (leafCall.op = "revert" /\ leafCall.pre_state # Uncompleted
          /\ leafCall.result = LeafOk) => leaf_state = Uncompleted

\* C4: the state of an action becomes Uncompleted only in a revert() that
\* returns success, and becomes Completed only in an execute() that returns
\* success.
C4_StateTransitions ==
    [][ /\ (action_state # Uncompleted /\ action_state' = Uncompleted) =>
              (pc = "revert" /\ pc' = "returned" /\ result'.kind = "Ok")
        /\ (action_state # Completed /\ action_state' = Completed) =>
              (pc = "execute" /\ pc' = "returned" /\ result'.kind = "Ok")
        /\ (leaf_state # Uncompleted /\ leaf_state' = Uncompleted) =>
              (leafCall'.op = "revert" /\ leafCall'.result = LeafOk)
        /\ (leaf_state # Completed /\ leaf_state' = Completed) =>
              (leafCall'.op = "execute" /\ leafCall'.result = LeafOk)
      ]_vars

\* witness of C4: a Completed composite with children has been reverted with
\* success and is Uncompleted
C4_Witness ==
    /\ Returned /\ call.op = "revert" /\ call.pre_state = Completed
    /\ Len(create_or_append_files) >= 2
    /\ result.kind = "Ok"
    /\ action_state = Uncompleted

\* C5: when no task panics, a fan-out with exactly one failing child returns
\* CreateOrAppendFile wrapping that child's error; with two or more failing
\* children it returns MultipleCreateOrAppendFile holding exactly their errors,
\* one per failing child; with none it returns success.
C5_ErrorCardinality ==
    (FannedOut /\ PanickedTasks = { }) =>
        /\ Cardinality(FailedTasks) = 0 => result = OkResult
        /\ Cardinality(FailedTasks) = 1 =>
              /\ result.kind = "CreateOrAppendFile"
              /\ \A i \in FailedTasks :
                    result.errs = << ChildError(create_or_append_files[i]) >>
        /\ Cardinality(FailedTasks) >= 2 =>
              /\ result.kind = "MultipleCreateOrAppendFile"
              /\ Len(result.errs) = Cardinality(FailedTasks)
              /\ SeqToSet(result.errs) =
                    { ChildError(create_or_append_files[i]) : i \in FailedTasks }

\* witness of C5: two of three children failed and the aggregate was returned
C5_Witness ==
    /\ FannedOut /\ PanickedTasks = { }
    /\ Cardinality(FailedTasks) = 2 /\ Cardinality(OkTasks) = 1
    /\ result.kind = "MultipleCreateOrAppendFile"

\* index in the child sequence of the child an error comes from
ChildIndexOf(e) ==
    CHOOSE i \in 1..Len(create_or_append_files) : create_or_append_files[i].path = e

\* position of task i among the results join_next() returned
JoinPosition(i) == CHOOSE k \in 1..Len(joined) : joined[k] = i

C7_PartialFailureAndRetry ==
    /\ (FannedOut /\ call.op = "execute"
          /\ result.kind \in { "CreateOrAppendFile", "MultipleCreateOrAppendFile" }) =>
          \A i \in DOMAIN tasks :
              IF i \in OkTasks
              THEN create_or_append_files[i].action_state = Completed
              ELSE create_or_append_files[i] = call.pre_files[i]
    /\ (FannedOut /\ call.op = "execute"
          /\ prev = "execute returned child errors"
          /\ OkTasks = DOMAIN tasks) =>
          /\ result = OkResult
          /\ action_state = Completed
          /\ \A i \in DOMAIN tasks :
                /\ create_or_append_files[i].action_state = Completed
                /\ call.pre_files[i].action_state = Completed => tasks[i].applied = 0

\* witness of C7: the retry of an execute() that had failed for some children
\* has returned success; a child that was Completed already was skipped and a
\* child that had failed was executed
C7_Witness ==
    /\ FannedOut /\ call.op = "execute"
    /\ prev = "execute returned child errors"
    /\ result = OkResult /\ action_state = Completed
    /\ \E i, j \in DOMAIN tasks :
          /\ call.pre_files[i].action_state = Completed /\ tasks[i].applied = 0
          /\ call.pre_files[j].action_state = Uncompleted /\ tasks[j].applied = 1

\* C8: during and after execute()/revert() the child sequence keeps its length
\* and its order: position i holds the child the task spawned for position i
\* returned, once that task has been joined with success, and the child that
\* was there before the call otherwise.
C8_OrderPreservation ==
    call.op \in { "execute", "revert" } =>
        /\ Len(create_or_append_files) = Len(call.pre_files)
        /\ \A i \in DOMAIN tasks :
              /\ create_or_append_files[i].path = call.pre_files[i].path
              /\ tasks[i].clone.path = call.pre_files[i].path
              /\ IF tasks[i].status = "joined" /\ tasks[i].res = "ok"
                 THEN create_or_append_files[i] = tasks[i].clone
                 ELSE create_or_append_files[i] = call.pre_files[i]

\* witness of C8: three children executed with success, the tasks having
\* completed in the reverse of the child order
C8_Witness ==
    /\ FannedOut /\ call.op = "execute" /\ result = OkResult
    /\ joined = << 3, 2, 1 >>
    /\ \A i \in 1..3 :
          /\ call.pre_files[i].action_state = Uncompleted
          /\ create_or_append_files[i].action_state = Completed

\* C9: the composite is in-progress from before the first spawn to the end of
\* the call; it is finalized only when every task has been joined with
\* success; on every error return it is still in-progress.
C9_ProgressUntilAllJoined ==
    /\ pc \in { "execute", "revert" } => action_state = Progress
    /\ (FannedOut /\ result.kind = "Ok") =>
          /\ action_state = FinalState(call.op)
          /\ \A i \in DOMAIN tasks : tasks[i].status = "joined" /\ tasks[i].res = "ok"
    /\ (Returned /\ result.kind # "Ok") => action_state = Progress
    /\ (FannedOut /\ \E i \in DOMAIN tasks :
                        tasks[i].status # "joined" \/ tasks[i].res # "ok") =>
          /\ result.kind # "Ok"
          /\ action_state = Progress

\* witness of C9: an execute() from Uncompleted returned the join error and
\* left the composite in-progress
C9_Witness ==
    /\ Returned /\ call.op = "execute" /\ call.pre_state = Uncompleted
    /\ result.kind = "Join"
    /\ action_state = Progress

\* C10: once join_next() has returned a panicked task the call has returned,
\* with the Join variant for that task and none of the child errors collected
\* so far, whatever the other tasks are doing; no task is left running and
\* none was run again.
C10_JoinErrorIsImmediate ==
    /\ (\E k \in 1..Len(joined) : tasks[joined[k]].res = "panic") =>
          /\ Returned
          /\ result.kind = "Join"
          /\ result.task = joined[Len(joined)]
          /\ result.errs = << >>
          /\ \A k \in 1..Len(joined) :
                tasks[joined[k]].res = "panic" <=> k = Len(joined)
    /\ (Returned /\ result.kind = "Join") =>
          /\ joined # << >>
          /\ tasks[result.task].res = "panic"
          /\ result.errs = << >>
          /\ \A i \in DOMAIN tasks : tasks[i].status # "running"

\* witness of C10: the join error was returned after a child error had been
\* collected and while another task had not been joined
C10_Witness ==
    /\ Returned /\ result.kind = "Join"
    /\ errors # << >>
    /\ \E i \in DOMAIN tasks : tasks[i].status \in { "aborted", "finished" }

\* C11: in a fan-out round in which no task panics the call returns only when
\* every spawned task has finished and been joined, whatever number of
\* children reported an error and in whatever order; a child that succeeds is
\* stored in the child sequence even if a sibling failed before it.
C11_FailuresDoNotCancelSiblings ==
    (FannedOut /\ PanickedTasks = { }) =>
        /\ Len(joined) = Len(create_or_append_files)
        /\ \A i \in DOMAIN tasks :
              /\ tasks[i].status = "joined"
              /\ tasks[i].res \in { "ok", "err" }
              /\ tasks[i].res = "ok" => create_or_append_files[i] = tasks[i].clone

\* witness of C11: the first task joined had failed, and a sibling joined after
\* it had appended its block and is stored Completed
C11_Witness ==
    /\ FannedOut /\ PanickedTasks = { } /\ call.op = "execute"
    /\ Len(joined) = 3
    /\ tasks[joined[1]].res = "err"
    /\ tasks[joined[3]].res = "ok" /\ tasks[joined[3]].applied = 1
    /\ create_or_append_files[joined[3]].action_state = Completed

\* C12: whenever the leaf's execute() reports that a discovery glob matched
\* nothing, no external process has been invoked and NIX_SSL_CERT_FILE has not
\* been changed in that call.
C12_DiscoveryFailsBeforeMutation ==
    (leafCall.op = "execute" /\ leafCall.result = LeafNoNssCacert) =>
        /\ leafCall.steps = << >>
        /\ env = leafCall.pre_env

ActionStates == { Uncompleted, Progress, Completed }

\* C13: for the composite and the leaf, in the state they are in and in every
\* ActionState, describe_execute() is empty iff the state is Completed and has
\* one description otherwise, describe_revert() is empty iff the state is
\* Uncompleted and has one description otherwise; in-progress gives one each.
C13_Descriptions ==
    /\ \A st \in ActionStates \cup { action_state, leaf_state } :
          /\ Len(DescribeExecute(st)) = (IF st = Completed THEN 0 ELSE 1)
          /\ Len(DescribeRevert(st)) = (IF st = Uncompleted THEN 0 ELSE 1)
          /\ Len(LeafDescribeExecute(st)) = (IF st = Completed THEN 0 ELSE 1)
          /\ Len(LeafDescribeRevert(st)) = (IF st = Uncompleted THEN 0 ELSE 1)
    /\ action_state = Progress =>
          Len(DescribeExecute(action_state)) = 1 /\ Len(DescribeRevert(action_state)) = 1

\* witness of C13: a composite left in-progress by a failed call describes both
\* a pending execute and a pending revert
C13_Witness ==
    /\ Returned /\ result.kind = "MultipleCreateOrAppendFile"
    /\ action_state = Progress
    /\ Len(DescribeExecute(action_state)) = 1
    /\ Len(DescribeRevert(action_state)) = 1

\* the targets that exist on the host, in PROFILE_TARGETS order
ExistingTargets == SelectSeq(PROFILE_TARGETS, LAMBDA p : p \in exists)

ChildPaths == [i \in 1..Len(create_or_append_files) |-> create_or_append_files[i].path]

\* C14: plan() builds one child for each PROFILE_TARGETS path that exists, in
\* that order, and none for a missing path; it returns the composite with the
\* composite and every child Uncompleted. On the host where only /etc/bashrc
\* and /etc/zshrc exist there are exactly 2 children, and an execute() in
\* which both succeed leaves those 2 Completed and the composite Completed.
C14_PlanSkipsMissingTargets ==
    /\ subject = "ConfigureShellProfile" => ChildPaths = ExistingTargets
    /\ (Returned /\ call.op = "plan") =>
          /\ result = OkResult
          /\ action_state = Uncompleted
          /\ \A i \in 1..Len(create_or_append_files) :
                create_or_append_files[i].action_state = Uncompleted
    /\ (subject = "ConfigureShellProfile" /\ exists = ScenarioHost) =>
          /\ ChildPaths = << "/etc/bashrc", "/etc/zshrc" >>
          /\ (FannedOut /\ call.op = "execute" /\ OkTasks = DOMAIN tasks) =>
                /\ result = OkResult
                /\ action_state = Completed
                /\ \A i \in 1..2 : create_or_append_files[i].action_state = Completed

\* witness of C14: on the scenario host the two planned children have been
\* executed with success
C14_Witness ==
    /\ subject = "ConfigureShellProfile" /\ exists = ScenarioHost
    /\ FannedOut /\ call.op = "execute" /\ call.pre_state = Uncompleted
    /\ result = OkResult /\ action_state = Completed
    /\ Len(create_or_append_files) = 2
    /\ \A i \in 1..2 : tasks[i].applied = 1

\* the steps of a complete execute() of the leaf
LeafAllSteps ==
    << "nix-env -i nix", "nix-env -i nss-cacert", "set_env" >>
        \o (IF channels = << >> THEN << >> ELSE << "nix-channel --update" >>)

\* C15: an execute() of the leaf from a non-Completed state performs, in this
\* order, the nix install, the nss-cacert install, the set of
\* NIX_SSL_CERT_FILE and, only with channels, the channel update; a failing
\* step is the last one performed, the error is returned and the state is as
\* it was; the state is Completed only when all the steps succeeded.
C15_LeafExecuteOrder ==
    (leafCall.op = "execute" /\ leafCall.pre_state # Completed) =>
        /\ Len(leafCall.steps) <= Len(LeafAllSteps)
        /\ leafCall.steps = SubSeq(LeafAllSteps, 1, Len(leafCall.steps))
        /\ leafCall.result = LeafOk => leafCall.steps = LeafAllSteps
        /\ leafCall.result = LeafOk <=> leaf_state = Completed
        /\ leafCall.result # LeafOk => leaf_state = leafCall.pre_state
        /\ leafCall.result.kind = "Command" =>
              leafCall.result.step = leafCall.steps[Len(leafCall.steps)]
        /\ env = (IF \E k \in 1..Len(leafCall.steps) : leafCall.steps[k] = "set_env"
                  THEN NIX_SSL_CERT_FILE_VALUE ELSE leafCall.pre_env)

\* witness of C15: the channel update failed after the three steps before it;
\* the variable is set and the leaf is still Uncompleted
C15_Witness ==
    /\ leafCall.op = "execute" /\ leafCall.pre_state = Uncompleted
    /\ Len(leafCall.steps) = 4
    /\ leafCall.result = LeafCommandError("nix-channel --update")
    /\ leaf_state = Uncompleted
    /\ env = NIX_SSL_CERT_FILE_VALUE

\* C16: a revert() of the leaf from a state other than Uncompleted only unsets
\* NIX_SSL_CERT_FILE: it runs no command, leaves the channels as they are and
\* returns success.
C16_LeafRevertOnlyUnsetsEnv ==
    [][ (leafCall'.op = "revert" /\ leaf_state # Uncompleted
            /\ << leafCall, env, leaf_state >>' # << leafCall, env, leaf_state >>) =>
           /\ leafCall'.steps = << "remove_var" >>
           /\ leafCall'.result = LeafOk
           /\ env' = "unset"
           /\ channels' = channels
      ]_vars

\* witness of C16: the Completed leaf, with channels, has been reverted and
\* NIX_SSL_CERT_FILE, which was set, is unset
C16_Witness ==
    /\ leafCall.op = "revert" /\ leafCall.pre_state = Completed
    /\ leafCall.pre_env = NIX_SSL_CERT_FILE_VALUE
    /\ channels # << >>
    /\ env = "unset"

\* C17: after execute() has returned, with any outcome, a child whose block
\* was appended by a task of this call is recorded Completed in the child
\* sequence, and a child is recorded Completed only if it was Completed before
\* the call or its task succeeded.
C17_RecordedIffApplied ==
    (FannedOut /\ call.op = "execute") =>
        \A i \in DOMAIN tasks :
            create_or_append_files[i].action_state = Completed
                <=> (call.pre_files[i].action_state = Completed \/ tasks[i].applied = 1)

Spawned(i) == tasks[i].status # "unspawned"

\* C18: the tasks of a call hold copies of distinct children, task i the copy
\* of child i; the child sequence changes only when the composite joins a
\* successful task and stores the copy that task returned, never when a task
\* runs.
C18_TasksOwnPrivateCopies ==
    /\ [](\A i \in DOMAIN tasks :
            Spawned(i) =>
                /\ tasks[i].clone.path = create_or_append_files[i].path
                /\ \A j \in DOMAIN tasks :
                      (Spawned(j) /\ j # i) => tasks[j].clone.path # tasks[i].clone.path)
    /\ [][ create_or_append_files' # create_or_append_files =>
              /\ pc \in { "execute", "revert" }
              /\ set # << >>
              /\ tasks[Head(set)].res = "ok"
              /\ joined' = Append(joined, Head(set))
              /\ create_or_append_files' =
                    [create_or_append_files EXCEPT ![Head(set)] = tasks[Head(set)].clone]
         ]_vars

\* witness of C18: a task has completed its copy while the child sequence
\* still holds the child as it was and a second task is running
C18_Witness ==
    /\ pc = "execute"
    /\ \E i, j \in DOMAIN tasks :
          /\ i # j
          /\ tasks[i].status = "finished" /\ tasks[i].applied = 1
          /\ tasks[i].clone.action_state = Completed
          /\ create_or_append_files[i].action_state = Uncompleted
          /\ tasks[j].status = "running"

AllChildren(st) ==
    \A i \in 1..Len(create_or_append_files) : create_or_append_files[i].action_state = st

\* C19: whenever the composite is Completed every child is Completed, and
\* whenever it is Uncompleted every child is Uncompleted; a mix of child
\* states occurs only while the composite is in-progress.
C19_CompositeAgreesWithChildren ==
    /\ action_state = Completed => AllChildren(Completed)
    /\ action_state = Uncompleted => AllChildren(Uncompleted)
    /\ (~AllChildren(Completed) /\ ~AllChildren(Uncompleted)) => action_state = Progress

\* witness of C19: the composite came to rest Completed, its three children
\* Completed, by an execute() that resumed from in-progress
C19_Witness ==
    /\ Returned /\ call.op = "execute" /\ call.pre_state = Progress
    /\ action_state = Completed
    /\ Len(create_or_append_files) = 3
    /\ AllChildren(Completed)

\* C20: a revert() that follows an execute() which returned child errors is
\* not short-circuited and spawns a task for every child; if every task
\* succeeds it returns success with the composite and every child Uncompleted,
\* the Completed children having been reverted and the Uncompleted ones left
\* untouched.
C20_RollbackAfterPartialFailure ==
    (Returned /\ call.op = "revert" /\ prev = "execute returned child errors") =>
        /\ call.pre_state = Progress
        /\ spawnIdx = Len(create_or_append_files) + 1
        /\ \A i \in DOMAIN tasks : Spawned(i)
        /\ OkTasks = DOMAIN tasks =>
              /\ result = OkResult
              /\ action_state = Uncompleted
              /\ AllChildren(Uncompleted)
              /\ \A i \in DOMAIN tasks :
                    tasks[i].applied =
                        (IF call.pre_files[i].action_state = Completed THEN -1 ELSE 0)

\* witness of C20: the revert of a partly executed composite has returned
\* success; one child was reverted and one took its short-circuit
C20_Witness ==
    /\ Returned /\ call.op = "revert" /\ prev = "execute returned child errors"
    /\ result = OkResult /\ action_state = Uncompleted
    /\ \E i, j \in DOMAIN tasks :
          /\ call.pre_files[i].action_state = Completed /\ tasks[i].applied = -1
          /\ call.pre_files[j].action_state = Uncompleted /\ tasks[j].applied = 0

====
